---- MODULE Spec2Model ----
(***************************************************************************)
(* Model of Store (src/src/index.ts): an in-memory mirror of one record    *)
(* ("store") of a Keyv/SQLite backend.  Two Store instances, "A" and "B",  *)
(* on two different databases, so that copyKey and copyFrom have a source  *)
(* and a target.  Every public method is one action (the whole synchronous *)
(* body of the method); every promise callback the methods register (the   *)
(* load awaited by connect, the .catch of update, the .finally of          *)
(* disconnect) is one action of its own, taken at any later time.          *)
(*                                                                         *)
(* Keys are ordinary own-property names (none of them is a member of       *)
(* Object.prototype), and values are defined JSON values.                  *)
(***************************************************************************)
EXTENDS Integers, Sequences, FiniteSets, TLC

\* ---------------------------------------------------------------- bounds
MaxOps == 2          \* public method calls in one run
MaxWrites == 2       \* keyv.set calls of one store still pending
MaxHandles == 2      \* Keyv objects one store creates in one run

Stores == {"A", "B"}
Keys == {"k1", "k2"}
Vals == {1, 2}

\* ---------------------------------------------------------------- values
NoFallback == 0                       \* the optional argument left undefined
NullHandle == 0                       \* keyv === null

EmptyObj == [k \in {} |-> 0]          \* {} as T

\* results of the public methods
Undefined == <<"undefined", 0>>
Null == <<"null", 0>>
True == <<"bool", 1>>
False == <<"bool", 0>>
Val(v) == <<"val", v>>
Bool(b) == IF b THEN True ELSE False

Other(s) == CHOOSE o \in Stores : o # s

VARIABLES
    keyv,        \* keyv[s]: the handle the store holds, NullHandle when null
    store,       \* store[s]: the mirror (this.store)
    connected_,  \* connected_[s]: the private connection flag
    inDevMode,   \* inDevMode[s]: fixed at construction
    record,      \* record[s]: what the database holds under "store"
    writes,      \* writes[s]: keyv.set calls not yet settled, oldest first
    loads,       \* loads[s]: handles whose keyv.get("store") is not yet settled
    closes,      \* closes[s]: handles whose disconnect() is not yet settled
    closed,      \* closed[s]: handles whose disconnect() has settled
    created,     \* created[s]: number of Keyv objects created so far
    listeners,   \* listeners[s]: <<handle, kind>> of the registered listeners
    loaded,      \* loaded[s]: handles whose load has completed
    ops,         \* number of public method calls so far
    last,        \* the last step: the method or callback, its arguments, its result
    cleanAtStart, \* cleanAtStart[s]: the constructor's `clean` argument
    stale        \* stale[s]: <<key, value, failed>> of the last get that returned a value
                 \* a set had put in the mirror while the write of that set
                 \* was still pending (history); <<>> when there was none

vars == <<keyv, store, connected_, inDevMode, record, writes, loads, closes,
          closed, created, listeners, loaded, ops, last,
          cleanAtStart, stale>>

\* ------------------------------------------------------- object helpers
In(k, m) == k \in DOMAIN m
Put(m, k, v) == [x \in DOMAIN m \cup {k} |-> IF x = k THEN v ELSE m[x]]
\* A delete that removes nothing.
RemoveNothing(m, k) == m

Remove(m, k) == [x \in DOMAIN m \ {k} |-> m[x]]
Snapshot(m) == m

Step(op, s, k, v, t, r) ==
    [op |-> op, s |-> s, key |-> k, val |-> v, tpl |-> t, res |-> r]

\* A getter that forgets the connection flag.
ConnectedHandleOnly(s) == keyv[s] # NullHandle

\* get connected (lines 26-28).
Connected(s) == connected_[s] /\ keyv[s] # NullHandle

\* What the database holds under "store": nothing, or a stored mirror.
Absent == [present |-> FALSE, value |-> EmptyObj]
Stored(m) == [present |-> TRUE, value |-> m]

\* The database record read back as a mirror: `await keyv.get("store") ?? {}`.
Load(r) == IF r.present THEN r.value ELSE EmptyObj

\* The database contents a run may start from: "A" is a new or a used
\* database, "B" a used one.
InitRecords(s) ==
    IF s = "A" THEN {Absent, Stored([k \in {"k1"} |-> 1])}
    ELSE {Stored([k \in {"k1"} |-> 1])}

NoRead == <<>>

\* The state the constructor leaves: connect() has created the first handle
\* and waits for its load; its addListener("error", ...) and the clear() of
\* `clean` (line 53) both found the store not connected and did nothing,
\* whatever `clean` was.  "A" is constructed with or without clean, "B"
\* without.
Init ==
    /\ keyv = [s \in Stores |-> 1]
    /\ store = [s \in Stores |-> EmptyObj]
    /\ connected_ = [s \in Stores |-> FALSE]
    /\ \E d \in BOOLEAN : inDevMode = [s \in Stores |-> d]
    /\ \E r \in InitRecords("A") :
          record = [s \in Stores |-> IF s = "A" THEN r ELSE CHOOSE x \in InitRecords(s) : TRUE]
    /\ writes = [s \in Stores |-> <<>>]
    /\ loads = [s \in Stores |-> {1}]
    /\ closes = [s \in Stores |-> {}]
    /\ closed = [s \in Stores |-> {}]
    /\ created = [s \in Stores |-> 1]
    /\ listeners = [s \in Stores |-> {}]
    /\ loaded = [s \in Stores |-> {}]
    /\ ops = 0
    /\ last = Step("new", "A", "k1", NoFallback, EmptyObj, Undefined)
    /\ \E c \in BOOLEAN : cleanAtStart = [s \in Stores |-> s = "A" /\ c]
    /\ stale = [s \in Stores |-> NoRead]


\* ------------------------------------------------------------- update()
\* `failed` as update() reads it in `return !failed`: the .catch callback that
\* sets it runs only after the promise has settled, never before the return.
FailedAtReturn == FALSE

\* The value update() returns on a connected store (lines 314 and 327).
UpdateRet(s) == IF inDevMode[s] THEN True ELSE Bool(~FailedAtReturn)

\* An update that writes in development mode too.
UpdateWritesAlways(s, w, cur, before, action, by) ==
    Append(w, [value |-> cur, before |-> before, action |-> action, by |-> by])

\* The pending keyv.set calls after update(before) on a connected store whose
\* mirror is now cur: none is issued in development mode (line 314).
\* A pending write also remembers, as history, the call that issued it:
\* by = [op, key, ret], the public method, its key and what it returned.
UpdateWrites(s, w, cur, before, action, by) ==
    IF inDevMode[s] THEN w
    ELSE Append(w, [value |-> cur, before |-> before, action |-> action, by |-> by])

By(op, k, r) == [op |-> op, key |-> k, ret |-> r]

NoAction == ""        \* update(before) called without a label (set, delete)

\* May update() be called on s: the bound on pending writes.
Room(s) == inDevMode[s] \/ Len(writes[s]) < MaxWrites

\* A .catch callback that logs and leaves the mirror as it is.
RevertKeep(cur, before) == cur

\* The mirror after the .catch callback of update (lines 319-322); every
\* caller passes a snapshot, and an object is truthy even when empty.
Revert(cur, before) == before

\* A reconcile whose template wins over the keys the mirror already has.
MergeOverwrite(m, t) ==
    [x \in DOMAIN m \cup DOMAIN t |-> IF x \in DOMAIN t THEN t[x] ELSE m[x]]

\* The mirror after reconcile's loop (lines 144-146).
Merge(m, t) ==
    [x \in DOMAIN m \cup DOMAIN t |-> IF In(x, m) THEN m[x] ELSE t[x]]

\* A copyFrom that ignores its clean argument.
CopyAllNoWipe(m, src, clean) ==
    [x \in DOMAIN m \cup DOMAIN src |-> IF x \in DOMAIN src THEN src[x] ELSE m[x]]

\* The mirror after copyFrom's loop (lines 293-296).
CopyAll(m, src, clean) ==
    LET base == IF clean THEN EmptyObj ELSE m
    IN [x \in DOMAIN base \cup DOMAIN src |-> IF In(x, src) THEN src[x] ELSE base[x]]

\* ------------------------------------------------ effects of set and get
\* [store, writes, res] of s after s.set(k, v) on a connected store; op is
\* the public method that makes the call (set, get or copyKey) and r what
\* that method then returns.
SetEff(s, k, v, op, r) ==
    LET before == Snapshot(store[s])
        cur == Put(store[s], k, v)
    IN [store |-> cur,
        writes |-> UpdateWrites(s, writes[s], cur, before, NoAction, By(op, k, r)),
        res |-> UpdateRet(s)]

\* A get that reads what the database holds instead of the mirror.
GetEffPersisted(s, k, fb) ==
    LET m == Load(record[s])
    IN [store |-> store[s], writes |-> writes[s],
        res |-> IF In(k, m) THEN Val(m[k]) ELSE Null]

\* A get that returns the fallback without setting it.
GetEffNoSet(s, k, fb) ==
    [store |-> store[s], writes |-> writes[s],
     res |-> IF k \in DOMAIN store[s] THEN Val(store[s][k])
             ELSE IF fb = NoFallback THEN Null ELSE Val(fb)]

\* [store, writes, res] of s after s.get(k, fb) on a connected store.
GetEff(s, k, fb) ==
    IF ~In(k, store[s])
    THEN IF fb = NoFallback
         THEN [store |-> store[s], writes |-> writes[s], res |-> Null]
         ELSE LET e == SetEff(s, k, fb, "get",
                               IF UpdateRet(s) = False THEN Null ELSE Val(fb))
              IN IF e.res = False
                 THEN [e EXCEPT !.res = Null]
                 ELSE [e EXCEPT !.res = Val(e.store[k])]
    ELSE [store |-> store[s], writes |-> writes[s], res |-> Val(store[s][k])]

\* Some set(k, v) of s whose write is still pending put the value the
\* mirror now holds under k, and k had no such value before that set.
Uncommitted(s, k) ==
    /\ In(k, store[s])
    /\ \E i \in 1..Len(writes[s]) :
          LET w == writes[s][i]
          IN /\ w.by.op = "set" /\ w.by.key = k
             /\ w.value[k] = store[s][k]
             /\ In(k, w.before) => w.before[k] # store[s][k]

\* ------------------------------------------------------- public methods
Call == ops < MaxOps /\ ops' = ops + 1

\* A get is a call; a get without fallback on a connected store that directly
\* follows the delivery of a write failure is taken beyond the bound on calls,
\* so that what a caller reads after a rollback is observed.
ReadCall(s, fb) ==
    /\ \/ ops < MaxOps
       \/ /\ ops = MaxOps /\ fb = NoFallback /\ Connected(s)
          /\ last.op = "writeFailed" /\ last.s = s
    /\ ops' = ops + 1

Has(s, k) ==
    /\ Call
    /\ last' = Step("has", s, k, NoFallback, EmptyObj,
                    IF Connected(s) THEN Bool(In(k, store[s])) ELSE Undefined)
    /\ UNCHANGED <<keyv, store, connected_, inDevMode, record, writes, loads,
                   closes, closed, created, listeners, loaded,
                   cleanAtStart, stale>>

Get(s, k, fb) ==
    /\ ReadCall(s, fb)
    /\ IF ~Connected(s)
       THEN /\ last' = Step("get", s, k, fb, EmptyObj, Undefined)
            /\ UNCHANGED <<store, writes, stale>>
       ELSE LET e == GetEff(s, k, fb)
            IN /\ (fb # NoFallback /\ ~In(k, store[s])) => Room(s)
               /\ store' = [store EXCEPT ![s] = e.store]
               /\ writes' = [writes EXCEPT ![s] = e.writes]
               /\ last' = Step("get", s, k, fb, EmptyObj, e.res)
               /\ stale' = IF Uncommitted(s, k)
                           THEN [stale EXCEPT ![s] = <<k, e.res[2], FALSE>>]
                           ELSE stale
    /\ UNCHANGED <<keyv, connected_, inDevMode, record, loads, closes, closed,
                   created, listeners, loaded,
                   cleanAtStart>>

Set(s, k, v) ==
    /\ Call
    /\ IF ~Connected(s)
       THEN /\ last' = Step("set", s, k, v, EmptyObj, Undefined)
            /\ UNCHANGED <<store, writes>>
       ELSE LET e == SetEff(s, k, v, "set", UpdateRet(s))
            IN /\ Room(s)
               /\ store' = [store EXCEPT ![s] = e.store]
               /\ writes' = [writes EXCEPT ![s] = e.writes]
               /\ last' = Step("set", s, k, v, EmptyObj, e.res)
    /\ UNCHANGED <<keyv, connected_, inDevMode, record, loads, closes, closed,
                   created, listeners, loaded,
                   cleanAtStart, stale>>

Delete(s, k) ==
    /\ Call
    /\ IF ~Connected(s)
       THEN /\ last' = Step("delete", s, k, NoFallback, EmptyObj, Undefined)
            /\ UNCHANGED <<store, writes>>
       ELSE IF ~In(k, store[s])
       THEN /\ last' = Step("delete", s, k, NoFallback, EmptyObj, Null)
            /\ UNCHANGED <<store, writes>>
       ELSE LET before == Snapshot(store[s])
                cur == Remove(store[s], k)
            IN /\ Room(s)
               /\ store' = [store EXCEPT ![s] = cur]
               /\ writes' = [writes EXCEPT ![s] = UpdateWrites(s, @, cur, before, NoAction,
                                                   By("delete", k, UpdateRet(s)))]
               /\ last' = Step("delete", s, k, NoFallback, EmptyObj, UpdateRet(s))
    /\ UNCHANGED <<keyv, connected_, inDevMode, record, loads, closes, closed,
                   created, listeners, loaded,
                   cleanAtStart, stale>>

Clear(s) ==
    /\ Call
    /\ IF ~Connected(s)
       THEN /\ last' = Step("clear", s, "k1", NoFallback, EmptyObj, Undefined)
            /\ UNCHANGED <<store, writes>>
       ELSE LET before == Snapshot(store[s])
                cur == EmptyObj
            IN /\ Room(s)
               /\ store' = [store EXCEPT ![s] = cur]
               /\ writes' = [writes EXCEPT ![s] = UpdateWrites(s, @, cur, before, "clear",
                                                   By("clear", "k1", UpdateRet(s)))]
               /\ last' = Step("clear", s, "k1", NoFallback, EmptyObj, UpdateRet(s))
    /\ UNCHANGED <<keyv, connected_, inDevMode, record, loads, closes, closed,
                   created, listeners, loaded,
                   cleanAtStart, stale>>

Reconcile(s, t) ==
    /\ Call
    /\ IF ~Connected(s)
       THEN /\ last' = Step("reconcile", s, "k1", NoFallback, t, Undefined)
            /\ UNCHANGED <<store, writes>>
       ELSE LET before == Snapshot(store[s])
                cur == Merge(store[s], t)
            IN /\ Room(s)
               /\ store' = [store EXCEPT ![s] = cur]
               /\ writes' = [writes EXCEPT ![s] = UpdateWrites(s, @, cur, before, "reconcile",
                                                   By("reconcile", "k1", UpdateRet(s)))]
               /\ last' = Step("reconcile", s, "k1", NoFallback, t, UpdateRet(s))
    /\ UNCHANGED <<keyv, connected_, inDevMode, record, loads, closes, closed,
                   created, listeners, loaded,
                   cleanAtStart, stale>>


\* s.copyKey(o, k, fb), o the other store.
CopyKey(s, k, fb) ==
    LET o == Other(s) IN
    /\ Call
    /\ IF ~Connected(s) \/ ~Connected(o)
       THEN /\ last' = Step("copyKey", s, k, fb, EmptyObj, Undefined)
            /\ UNCHANGED <<store, writes>>
       ELSE LET g == GetEff(o, k, fb)
            IN IF g.res = Null
               THEN /\ (fb # NoFallback /\ ~In(k, store[o])) => Room(o)
                    /\ store' = [store EXCEPT ![o] = g.store]
                    /\ writes' = [writes EXCEPT ![o] = g.writes]
                    /\ last' = Step("copyKey", s, k, fb, EmptyObj, Null)
               ELSE LET e == SetEff(s, k, g.res[2], "copyKey", UpdateRet(s))
                    IN /\ (fb # NoFallback /\ ~In(k, store[o])) => Room(o)
                       /\ Room(s)
                       /\ store' = [store EXCEPT ![o] = g.store, ![s] = e.store]
                       /\ writes' = [writes EXCEPT ![o] = g.writes, ![s] = e.writes]
                       /\ last' = Step("copyKey", s, k, fb, EmptyObj, e.res)
    /\ UNCHANGED <<keyv, connected_, inDevMode, record, loads, closes, closed,
                   created, listeners, loaded,
                   cleanAtStart, stale>>

\* s.copyFrom(o, clean), o the other store; last.val is 1 when clean is true.
CopyFrom(s, clean) ==
    LET o == Other(s) IN
    /\ Call
    /\ IF ~Connected(s) \/ ~Connected(o)
       THEN /\ last' = Step("copyFrom", s, "k1", IF clean THEN 1 ELSE 0, EmptyObj, Undefined)
            /\ UNCHANGED <<store, writes>>
       ELSE LET before == Snapshot(store[s])
                cur == CopyAll(store[s], store[o], clean)
            IN /\ Room(s)
               /\ store' = [store EXCEPT ![s] = cur]
               /\ writes' = [writes EXCEPT ![s] = UpdateWrites(s, @, cur, before, "copyFrom",
                                                   By("copyFrom", "k1", UpdateRet(s)))]
               /\ last' = Step("copyFrom", s, "k1", IF clean THEN 1 ELSE 0, EmptyObj,
                               UpdateRet(s))
    /\ UNCHANGED <<keyv, connected_, inDevMode, record, loads, closes, closed,
                   created, listeners, loaded,
                   cleanAtStart, stale>>

\* s.addListener(event, listener) called by the user of the store.
AddListener(s) ==
    /\ Call
    /\ IF ~Connected(s)
       THEN /\ last' = Step("addListener", s, "k1", NoFallback, EmptyObj, Undefined)
            /\ UNCHANGED listeners
       ELSE /\ listeners' = [listeners EXCEPT ![s] = @ \cup {<<keyv[s], "user">>}]
            /\ last' = Step("addListener", s, "k1", NoFallback, EmptyObj, True)
    /\ UNCHANGED <<keyv, store, connected_, inDevMode, record, writes, loads,
                   closes, closed, created, loaded,
                   cleanAtStart, stale>>

\* s.disconnect(): the close is issued, the handle is dropped at once.
Disconnect(s) ==
    /\ Call
    /\ IF ~Connected(s)
       THEN /\ last' = Step("disconnect", s, "k1", NoFallback, EmptyObj, Undefined)
            /\ UNCHANGED <<keyv, closes>>
       ELSE /\ closes' = [closes EXCEPT ![s] = @ \cup {keyv[s]}]
            /\ keyv' = [keyv EXCEPT ![s] = NullHandle]
            /\ last' = Step("disconnect", s, "k1", NoFallback, EmptyObj, True)
    /\ UNCHANGED <<store, connected_, inDevMode, record, writes, loads, closed,
                   created, listeners, loaded,
                   cleanAtStart, stale>>

\* A reconnect that runs connect() whether or not the store is connected.
ReconnectAlways(s) ==
    LET h == created[s] + 1
    IN /\ Call
       /\ last' = Step("reconnect", s, "k1", NoFallback, EmptyObj, True)
       /\ created[s] < MaxHandles
       /\ created' = [created EXCEPT ![s] = h]
       /\ keyv' = [keyv EXCEPT ![s] = h]
       /\ listeners' = [listeners EXCEPT ![s] =
                           IF connected_[s] THEN @ \cup {<<h, "error">>} ELSE @]
       /\ loads' = [loads EXCEPT ![s] = @ \cup {h}]
       /\ UNCHANGED <<store, connected_, inDevMode, record, writes, closes,
                      closed, loaded, cleanAtStart, stale>>

\* s.reconnect(): connect() runs up to its await when the store is not
\* connected; the error listener goes through addListener, which registers
\* it only if the store is connected at that moment.
Reconnect(s) ==
    /\ Call
    /\ last' = Step("reconnect", s, "k1", NoFallback, EmptyObj, True)
    /\ IF Connected(s)
       THEN UNCHANGED <<keyv, created, listeners, loads>>
       ELSE LET h == created[s] + 1
            IN /\ created[s] < MaxHandles
               /\ created' = [created EXCEPT ![s] = h]
               /\ keyv' = [keyv EXCEPT ![s] = h]
               /\ listeners' = [listeners EXCEPT ![s] =
                                   IF connected_[s] THEN @ \cup {<<h, "error">>} ELSE @]
               /\ loads' = [loads EXCEPT ![s] = @ \cup {h}]
    /\ UNCHANGED <<store, connected_, inDevMode, record, writes, closes, closed,
                   loaded,
                   cleanAtStart, stale>>

\* ------------------------------------------------------ promise callbacks
Event(op, s) == Step(op, s, "k1", NoFallback, EmptyObj, Undefined)

\* connect() resumes after `await this.keyv.get("store")` on handle h.
LoadDone(s, h) ==
    /\ h \in loads[s]
    /\ loads' = [loads EXCEPT ![s] = @ \ {h}]
    /\ loaded' = [loaded EXCEPT ![s] = @ \cup {h}]
    /\ connected_' = [connected_ EXCEPT ![s] = TRUE]
    /\ store' = [store EXCEPT ![s] = Load(record[s])]
    /\ last' = Event("loaded", s)
    /\ UNCHANGED <<keyv, inDevMode, record, writes, closes, closed, created,
                   listeners, ops,
                   cleanAtStart, stale>>

\* keyv.get("store") rejects: connect() ends there, nothing is caught.
LoadFail(s, h) ==
    /\ h \in loads[s]
    /\ loads' = [loads EXCEPT ![s] = @ \ {h}]
    /\ last' = Event("loadFailed", s)
    /\ UNCHANGED <<keyv, store, connected_, inDevMode, record, writes, closes,
                   closed, created, listeners, loaded, ops,
                   cleanAtStart, stale>>

\* The oldest pending keyv.set resolves: the database now holds its value.
\* The writes of one store settle in the order they were issued.
WriteOk(s) ==
    /\ writes[s] # <<>>
    /\ record' = [record EXCEPT ![s] = Stored(Head(writes[s]).value)]
    /\ writes' = [writes EXCEPT ![s] = Tail(@)]
    /\ last' = Event("writeOk", s)
    /\ UNCHANGED <<keyv, store, connected_, inDevMode, loads, closes, closed,
                   created, listeners, loaded, ops,
                   cleanAtStart, stale>>

\* The oldest pending keyv.set rejects: the .catch callback of update runs.
WriteFail(s) ==
    /\ writes[s] # <<>>
    /\ store' = [store EXCEPT ![s] = Revert(@, Head(writes[s]).before)]
    /\ writes' = [writes EXCEPT ![s] = Tail(@)]
    /\ last' = Event("writeFailed", s)
    /\ stale' = IF /\ stale[s] # NoRead /\ ~stale[s][3]
                   /\ Head(writes[s]).by.op = "set"
                   /\ Head(writes[s]).by.key = stale[s][1]
                   /\ Head(writes[s]).value[stale[s][1]] = stale[s][2]
                THEN [stale EXCEPT ![s] = <<@[1], @[2], TRUE>>]
                ELSE stale
    /\ UNCHANGED <<keyv, connected_, inDevMode, record, loads, closes, closed,
                   created, listeners, loaded, ops,
                   cleanAtStart>>

\* A close whose callback leaves the mirror and the flag as they are.
CloseDoneKeep(s, h) ==
    /\ h \in closes[s]
    /\ closes' = [closes EXCEPT ![s] = @ \ {h}]
    /\ closed' = [closed EXCEPT ![s] = @ \cup {h}]
    /\ last' = Event("closed", s)
    /\ UNCHANGED <<keyv, store, connected_, inDevMode, record, writes, loads,
                   created, listeners, loaded, ops, cleanAtStart, stale>>

\* keyv.disconnect() of handle h settles: the .finally callback runs.
CloseDone(s, h) ==
    /\ h \in closes[s]
    /\ closes' = [closes EXCEPT ![s] = @ \ {h}]
    /\ closed' = [closed EXCEPT ![s] = @ \cup {h}]
    /\ store' = [store EXCEPT ![s] = EmptyObj]
    /\ connected_' = [connected_ EXCEPT ![s] = FALSE]
    /\ last' = Event("closed", s)
    /\ UNCHANGED <<keyv, inDevMode, record, writes, loads, created, listeners,
                   loaded, ops,
                   cleanAtStart, stale>>

Fallbacks == Vals \cup {NoFallback}
Templates == {[k \in {"k1"} |-> 2], [k \in Keys |-> 2]}

\* "A" is the store the run exercises with every public method; "B" is the
\* other store of copyKey and copyFrom, which its own user sets keys of and
\* disconnects.
Next ==
    \/ \E k \in Keys : Has("A", k)
    \/ \E k \in Keys, fb \in Fallbacks : Get("A", k, fb)
    \/ \E s \in Stores, k \in Keys, v \in Vals : Set(s, k, v)
    \/ \E k \in Keys : Delete("A", k)
    \/ Clear("A")
    \/ \E t \in Templates : Reconcile("A", t)
    \/ \E k \in Keys, fb \in Fallbacks : CopyKey("A", k, fb)
    \/ \E clean \in BOOLEAN : CopyFrom("A", clean)
    \/ AddListener("A")
    \/ \E s \in Stores : Disconnect(s)
    \/ Reconnect("A")
    \/ \E s \in Stores, h \in 1..MaxHandles : LoadDone(s, h)
    \/ \E s \in Stores, h \in 1..MaxHandles : LoadFail(s, h)
    \/ \E s \in Stores : WriteOk(s)
    \/ \E s \in Stores : WriteFail(s)
    \/ \E s \in Stores, h \in 1..MaxHandles : CloseDone(s, h)

Spec == Init /\ [][Next]_vars


\* ------------------------------------------------------------ the steps
\* This step is a call of a public method on s.
CallOn(s) == ops' = ops + 1 /\ last'.s = s

\* This step delivers the failure / the success of the oldest write of s.
FailOn(s) == Len(writes'[s]) < Len(writes[s]) /\ last'.op = "writeFailed"
OkOn(s) == Len(writes'[s]) < Len(writes[s]) /\ last'.op = "writeOk"

\* This step issues a write on s; Newest is that write.
Issues(s) == ops' = ops + 1 /\ Len(writes'[s]) > Len(writes[s])
Newest(s) == writes'[s][Len(writes'[s])]

\* ---------------------------------------------------------------- C1
\* C1: every write a call issues carries the mirror as it was immediately
\* before the call, and when the failure of a write is delivered the mirror
\* becomes that pre-call mirror again (all keys a reconcile added go with it).
RollbackGuarantee ==
    [][\A s \in Stores :
          /\ Issues(s) => Newest(s).before = store[s]
          /\ FailOn(s) => store'[s] = Head(writes[s]).before]_vars

\* A failed write of "A" has been delivered on a connected store and nothing
\* else is pending: the mirror is the database's record again.
RollbackWitness ==
    /\ last.op = "writeFailed" /\ last.s = "A"
    /\ Connected("A") /\ ~inDevMode["A"]
    /\ writes["A"] = <<>>
    /\ store["A"] = Load(record["A"])

\* ---------------------------------------------------------------- C2
Refused == {"has", "get", "set", "delete", "reconcile", "clear", "copyKey",
            "copyFrom", "addListener", "disconnect"}

\* C2: a call of has, get, set, delete, reconcile, clear, copyKey, copyFrom,
\* addListener or disconnect on a store whose handle is null or whose
\* connection flag is false returns undefined, leaves every mirror as it is
\* and issues no backend call (no write, load, close or listener).
DisconnectedRefusal ==
    [][\A s \in Stores :
          (CallOn(s) /\ last'.op \in Refused
                     /\ (keyv[s] = NullHandle \/ ~connected_[s]))
          => /\ last'.res = Undefined
             /\ UNCHANGED <<store, writes, loads, closes, listeners, keyv,
                            created, record, connected_>>]_vars

\* set was refused on "A" after disconnect() dropped its handle.
RefusalWitness ==
    /\ last.op = "set" /\ last.s = "A" /\ last.res = Undefined
    /\ keyv["A"] = NullHandle


\* s still holds the handle its constructor created: no disconnect() and no
\* second connect() has happened on it.
FirstConnection(s) == created[s] = 1 /\ closes[s] = {} /\ closed[s] = {}

\* ---------------------------------------------------------------- C3
Mutations == {"set", "delete", "clear", "reconcile", "copyFrom"}

\* C3: when the write issued by set, delete, clear, reconcile or copyFrom
\* fails, that call has returned false.
FailureReturnsFalse ==
    [][\A s \in Stores :
          (FailOn(s) /\ Head(writes[s]).by.op \in Mutations)
          => Head(writes[s]).by.ret = False]_vars

\* ---------------------------------------------------------------- C4
\* C4: when the write issued by the set of get(k, fallback) fails, the get
\* has returned null, and k is not in the mirror once the failure is
\* delivered.
FallbackSetFailure ==
    [][\A s \in Stores :
          (FailOn(s) /\ Head(writes[s]).by.op = "get")
          => /\ Head(writes[s]).by.ret = Null
             /\ ~In(Head(writes[s]).by.key, store'[s])]_vars

\* ---------------------------------------------------------------- C5
\* Write w leaves key k as it was.
Untouched(w, k) ==
    /\ In(k, w.before) = In(k, w.value)
    /\ In(k, w.before) => w.before[k] = w.value[k]

\* C5: get(k, fallback) on a connected store without k returns the fallback;
\* when the write of that set succeeds, and no later call has mutated k and
\* the store is still on its first connection, k is in the mirror with the
\* fallback as its value; get(k) on a present key returns its value, changes no mirror
\* and issues no write.
FallbackSetSuccess ==
    [][\A s \in Stores :
          /\ (CallOn(s) /\ last'.op = "get" /\ Connected(s)
                /\ ~In(last'.key, store[s]) /\ last'.val # NoFallback)
             => last'.res = Val(last'.val)
          /\ (OkOn(s) /\ Head(writes[s]).by.op = "get" /\ Connected(s)
                /\ FirstConnection(s)
                /\ \A i \in 2..Len(writes[s]) :
                      Untouched(writes[s][i], Head(writes[s]).by.key))
             => LET k == Head(writes[s]).by.key
                IN In(k, store'[s]) /\ store'[s][k] = Head(writes[s]).value[k]
          /\ (CallOn(s) /\ last'.op = "get" /\ Connected(s)
                /\ In(last'.key, store[s]))
             => /\ last'.res = Val(store[s][last'.key])
                /\ UNCHANGED <<store, writes>>]_vars

\* ---------------------------------------------------------------- C6
\* C6: on a connected store outside development mode with no write pending
\* (and still on its first connection), the database's record, read as a
\* mirror, equals the mirror.
MirrorMatchesRecord ==
    \A s \in Stores :
        (Connected(s) /\ ~inDevMode[s] /\ writes[s] = <<>> /\ FirstConnection(s))
        => Load(record[s]) = store[s]

\* ---------------------------------------------------------------- C7
\* C7: reconcile(t) on a connected store with mirror m keeps the value of
\* every key of m, gives every key of t that m lacks the template's value,
\* adds no other key and issues one write whose snapshot is m; when that
\* write fails the mirror becomes m again.
ReconcileNonOverwrite ==
    [][\A s \in Stores :
          /\ (CallOn(s) /\ last'.op = "reconcile" /\ Connected(s))
             => LET tpl == last'.tpl
                    m == store[s]
                IN /\ DOMAIN store'[s] = DOMAIN m \cup DOMAIN tpl
                   /\ \A k \in DOMAIN m : store'[s][k] = m[k]
                   /\ \A k \in DOMAIN tpl \ DOMAIN m : store'[s][k] = tpl[k]
                   /\ ~inDevMode[s] => /\ Len(writes'[s]) = Len(writes[s]) + 1
                                       /\ Newest(s).before = m
          /\ (FailOn(s) /\ Head(writes[s]).by.op = "reconcile")
             => store'[s] = Head(writes[s]).before]_vars

\* reconcile({k1: 2, k2: 2}) on the mirror {k1: 1} has kept k1 and added k2.
ReconcileWitness ==
    /\ last.op = "reconcile" /\ last.s = "A" /\ last.res = True
    /\ last.tpl = [k \in Keys |-> 2]
    /\ store["A"] = [k \in Keys |-> IF k = "k1" THEN 1 ELSE 2]

\* ---------------------------------------------------------------- C8
\* C8: when s.copyFrom(o, true) on two connected stores returns true, the
\* mirror of s is the mirror o had at the call and the mirror of o is as it
\* was.
CopyFromCompleteness ==
    [][\A s \in Stores :
          (CallOn(s) /\ last'.op = "copyFrom" /\ last'.val = 1
                     /\ last'.res = True)
          => /\ store'[s] = store[Other(s)]
             /\ store'[Other(s)] = store[Other(s)]]_vars

\* copyFrom(B, true) has replaced a mirror of "A" that held a key "B" lacks.
CopyFromWitness ==
    /\ last.op = "copyFrom" /\ last.s = "A" /\ last.val = 1 /\ last.res = True
    /\ store["A"] = store["B"] /\ store["B"] # EmptyObj
    /\ writes["A"] # <<>>
    /\ \E k \in Keys : /\ In(k, writes["A"][Len(writes["A"])].before)
                       /\ ~In(k, store["B"])

\* ---------------------------------------------------------------- C9
\* The step before this one was the call op(k) on s and it returned true.
Just(op, s, k) ==
    last.op = op /\ last.s = s /\ last.key = k /\ last.res = True

\* C9: set(k, v) on a connected store returns true and puts v under k, and a
\* get(k) that follows it returns v; delete(k) of a present key returns true
\* and removes k, and a get(k) that follows it returns null; delete(k) of an
\* absent key returns null, changes no mirror and issues no write.
SetGetDelete ==
    [][\A s \in Stores :
          /\ (CallOn(s) /\ last'.op = "set" /\ Connected(s))
             => /\ last'.res = True
                /\ In(last'.key, store'[s])
                /\ store'[s][last'.key] = last'.val
          /\ (CallOn(s) /\ last'.op = "get" /\ Just("set", s, last'.key))
             => last'.res = Val(last.val)
          /\ (CallOn(s) /\ last'.op = "delete" /\ Connected(s)
                /\ In(last'.key, store[s]))
             => last'.res = True /\ ~In(last'.key, store'[s])
          /\ (CallOn(s) /\ last'.op = "get" /\ last'.val = NoFallback
                /\ Just("delete", s, last'.key))
             => last'.res = Null
          /\ (CallOn(s) /\ last'.op = "delete" /\ Connected(s)
                /\ ~In(last'.key, store[s]))
             => last'.res = Null /\ UNCHANGED <<store, writes>>]_vars

\* get(k) has returned null right after delete(k) removed a present key: the
\* write of that delete is still the newest pending one.
SetGetDeleteWitness ==
    /\ last.op = "get" /\ last.s = "A" /\ last.res = Null
    /\ writes["A"] # <<>>
    /\ LET w == writes["A"][Len(writes["A"])]
       IN /\ w.by.op = "delete" /\ w.by.key = last.key
          /\ In(last.key, w.before)
          /\ w.value = store["A"]

\* --------------------------------------------------------------- C10
\* C10: s.copyKey(o, k, fallback) on two connected stores: when o has k it
\* returns true, s then holds o's value under k and o's mirror is as it was;
\* when o lacks k and no fallback is given it returns null and no mirror
\* changes; when o lacks k and a fallback is given, both s and o then hold
\* the fallback under k.
CopyKeyCopies ==
    [][\A s \in Stores :
          (CallOn(s) /\ last'.op = "copyKey" /\ Connected(s)
                     /\ Connected(Other(s)))
          => LET o == Other(s)
                 k == last'.key
                 fb == last'.val
             IN /\ In(k, store[o])
                   => /\ last'.res = True
                      /\ In(k, store'[s]) /\ store'[s][k] = store[o][k]
                      /\ store'[o] = store[o]
                /\ (~In(k, store[o]) /\ fb = NoFallback)
                   => last'.res = Null /\ store' = store
                /\ (~In(k, store[o]) /\ fb # NoFallback)
                   => /\ In(k, store'[o]) /\ store'[o][k] = fb
                      /\ In(k, store'[s]) /\ store'[s][k] = fb]_vars

\* copyKey(B, k2, fallback) has put the fallback under k2 in both stores.
CopyKeyWitness ==
    /\ last.op = "copyKey" /\ last.s = "A" /\ last.key = "k2"
    /\ last.val # NoFallback /\ last.res = True
    /\ In("k2", store["A"]) /\ store["A"]["k2"] = last.val
    /\ In("k2", store["B"]) /\ store["B"]["k2"] = last.val


\* --------------------------------------------------------------- C11
\* C11: in development mode no write is ever pending and the database's
\* record never changes; set, delete of a present key, reconcile, clear and
\* copyFrom on a connected store return true and their mutation is in the
\* mirror.
DevelopmentMode ==
    [][\A s \in Stores :
          inDevMode[s]
          => /\ writes'[s] = <<>> /\ record'[s] = record[s]
             /\ (CallOn(s) /\ Connected(s) /\ last'.op = "set")
                => /\ last'.res = True
                   /\ In(last'.key, store'[s])
                   /\ store'[s][last'.key] = last'.val
             /\ (CallOn(s) /\ Connected(s) /\ last'.op = "delete"
                   /\ In(last'.key, store[s]))
                => last'.res = True /\ ~In(last'.key, store'[s])
             /\ (CallOn(s) /\ Connected(s) /\ last'.op = "clear")
                => last'.res = True /\ store'[s] = EmptyObj
             /\ (CallOn(s) /\ Connected(s) /\ last'.op = "reconcile")
                => /\ last'.res = True
                   /\ DOMAIN last'.tpl \subseteq DOMAIN store'[s]
                   /\ \A k \in DOMAIN last'.tpl \ DOMAIN store[s] :
                         store'[s][k] = last'.tpl[k]
             /\ (CallOn(s) /\ Connected(s) /\ Connected(Other(s))
                   /\ last'.op = "copyFrom")
                => /\ last'.res = True
                   /\ \A k \in DOMAIN store[Other(s)] :
                         In(k, store'[s]) /\ store'[s][k] = store[Other(s)][k]]_vars

\* In development mode set has put a key in the mirror of "A" that the
\* database, which has no record, never sees.
DevelopmentModeWitness ==
    /\ inDevMode["A"] /\ Connected("A")
    /\ last.op = "set" /\ last.s = "A" /\ last.res = True
    /\ In(last.key, store["A"]) /\ store["A"][last.key] = last.val
    /\ writes["A"] = <<>> /\ record["A"] = Absent

\* --------------------------------------------------------------- C12
\* C12: a store constructed with clean = true is connected with an empty
\* mirror, whatever the database held (here: before its user's first call).
CleanOnConstruct ==
    \A s \in Stores :
        (cleanAtStart[s] /\ Connected(s) /\ ops = 0) => store[s] = EmptyObj

\* --------------------------------------------------------------- C13
\* The handles of s that were created and whose close has not completed.
OpenHandles(s) == (1..created[s]) \ closed[s]

\* C13: at most one handle of a store is open at any time.
AtMostOneHandle == \A s \in Stores : Cardinality(OpenHandles(s)) <= 1


\* --------------------------------------------------------------- C14
\* The close of a handle of s has just completed.
CloseOn(s) == closed'[s] # closed[s] /\ last'.op = "closed" /\ last'.s = s

\* C14: disconnect on a connected store returns true, drops the handle at
\* once and issues its close, the mirror still as it was; when a close
\* completes the mirror is empty and the store is not connected; disconnect
\* on a store that holds no handle returns undefined and changes nothing.
DisconnectContract ==
    [][\A s \in Stores :
          /\ (CallOn(s) /\ last'.op = "disconnect" /\ Connected(s))
             => /\ last'.res = True
                /\ keyv'[s] = NullHandle
                /\ closes'[s] = closes[s] \cup {keyv[s]}
                /\ store'[s] = store[s] /\ connected_'[s] = connected_[s]
          /\ CloseOn(s)
             => store'[s] = EmptyObj /\ ~connected_'[s]
          /\ (CallOn(s) /\ last'.op = "disconnect" /\ keyv[s] = NullHandle)
             => /\ last'.res = Undefined
                /\ UNCHANGED <<keyv, store, connected_, record, writes, loads,
                               closes, closed, created, listeners, loaded>>]_vars

\* "A" was disconnected, its close completed, and a second disconnect, with
\* no reconnect in between, was refused.
DisconnectWitness ==
    /\ last.op = "disconnect" /\ last.s = "A" /\ last.res = Undefined
    /\ keyv["A"] = NullHandle /\ created["A"] = 1 /\ closed["A"] = {1}
    /\ store["A"] = EmptyObj /\ ~connected_["A"] /\ ops = 2

\* --------------------------------------------------------------- C15
\* C15: a store that reports connected holds a handle whose load has
\* completed.
ConnectedOnlyAfterLoad ==
    \A s \in Stores : Connected(s) => keyv[s] \in loaded[s]

StaleReadSteps ==
    [][\A s \in Stores :
          /\ (CallOn(s) /\ last'.op = "get" /\ Connected(s)
                /\ Uncommitted(s, last'.key))
             => /\ last'.res = Val(store[s][last'.key])
                /\ stale'[s] = <<last'.key, store[s][last'.key], FALSE>>
          /\ (FailOn(s) /\ Head(writes[s]).by.op = "set")
             => LET k == Head(writes[s]).by.key
                    b == Head(writes[s]).before
                IN /\ In(k, store'[s]) = In(k, b)
                   /\ In(k, b) => store'[s][k] = b[k]
          /\ (CallOn(s) /\ last'.op = "get" /\ Connected(s)
                /\ last'.val = NoFallback)
             => last'.res = IF In(last'.key, store[s])
                            THEN Val(store[s][last'.key]) ELSE Null]_vars

\* C17 (the race): set(k, v) on "A" returned, a get(k) returned v while the
\* write was pending, the write failed, and the get(k) that followed returned
\* null or another value.
StaleReadWitness ==
    /\ last.op = "get" /\ last.s = "A" /\ last.val = NoFallback
    /\ stale["A"] # NoRead
    /\ stale["A"][3] /\ last.key = stale["A"][1]
    /\ last.res # Val(stale["A"][2])
    /\ last.res = Null \/ last.res[1] = "val"

\* --------------------------------------------------------------- C18
\* C18: reconnect on a connected store returns true, keeps the handle, the
\* mirror, the flag and the record, creates no handle and issues no load,
\* write or close.
ReconnectNoOp ==
    [][\A s \in Stores :
          (CallOn(s) /\ last'.op = "reconnect" /\ Connected(s))
          => /\ last'.res = True
             /\ UNCHANGED <<keyv, store, connected_, record, created, loads,
                            writes, closes, closed, listeners, loaded>>]_vars

\* "A" is connected on its first handle, loaded, and reconnect was just
\* called on it.
ReconnectWitness ==
    /\ last.op = "reconnect" /\ last.s = "A" /\ last.res = True
    /\ Connected("A") /\ created["A"] = 1 /\ keyv["A"] = 1
    /\ loaded["A"] = {1} /\ loads["A"] = {} /\ closes["A"] = {}


\* --------------------------------------------------------------- C19
\* s was disconnected on its first handle and reconnected, and the close of
\* the first handle and the load of the second have both completed, one of
\* them in the step just taken.
ReconnectSettled(s) ==
    /\ created[s] = 2 /\ keyv[s] = 2
    /\ closed[s] = {1} /\ closes[s] = {}
    /\ loaded[s] = {1, 2} /\ loads[s] = {}
    /\ last.s = s /\ last.op \in {"loaded", "closed"}

\* C19: after disconnect and reconnect on a connected store, once the close
\* and the load have both completed, in either order, the store is connected
\* and its mirror is the record the database holds.
ReconnectLiveness ==
    \A s \in Stores :
        ReconnectSettled(s) => Connected(s) /\ store[s] = Load(record[s])

\* --------------------------------------------------------------- C20
\* C20: when the write of one mutation has just failed and the write of a
\* second mutation, issued before that failure was delivered, now succeeds,
\* every key the second mutation changed is in the mirror as the second
\* mutation left it (store connected, on its first connection).
RollbackIsolation ==
    [][\A s \in Stores :
          (OkOn(s) /\ Len(writes[s]) = 1
             /\ Head(writes[s]).by.op \in Mutations
             /\ last.op = "writeFailed" /\ last.s = s
             /\ Connected(s) /\ FirstConnection(s))
          => LET w == Head(writes[s])
             IN \A k \in Keys :
                   ~Untouched(w, k)
                   => /\ In(k, store'[s]) = In(k, w.value)
                      /\ In(k, w.value) => store'[s][k] = w.value[k]]_vars

====
